---- MODULE Spec2Model ----
(***************************************************************************)
(* AgriAssist AI frontend (src/frontend/app.js): the tab controller, the   *)
(* language toggle, the chat flow, the image-analysis flow, the tips flow  *)
(* and the loading overlay they share, as one event-driven state machine.  *)
(* Every handler runs to its next await in one step; a fetch and the read  *)
(* of its body are separate steps taken by the network.                    *)
(***************************************************************************)
EXTENDS Integers, Sequences, FiniteSets

\* ------------------------------------------------------------------ bounds
NumTabs == 3
MaxRequests == 2
MaxReads == 2

\* --------------------------------------------------------------- constants
TabBtns == 1..NumTabs
TabPanes == 1..NumTabs

\* btn.dataset.tab of button b: the id of the pane it names
DatasetTab(b) == b

Languages == {"en", "sw"}
SessionIds == {"session_1_a", "session_2_b"}

\* contents of the chat box, one character per element: empty, blank
\* (spaces, tabs, line breaks, a no-break space), and messages with
\* whitespace before, after and inside
ChatInputs ==
    { <<>>, <<" ">>, <<"\t", "\n", "\\u00A0">>, <<"h">>, <<"h", "\r">>,
      <<"\t", "h", " ", "h", "\n">> }

\* a File: its declared MIME type (in pieces) and its contents
NoFile == [type |-> <<>>, data |-> "none"]
ImageFiles == { [type |-> <<"image/", "png">>, data |-> "leaf"] }
OtherFiles == { [type |-> <<"text/", "plain">>, data |-> "notes"] }
Pictures == ImageFiles \cup { [type |-> <<"image/", "jpeg">>, data |-> "stem"] }
Files == Pictures \cup OtherFiles

\* values of the location box and of the crop and season selects
LocationValues == {<<>>, <<"Nakuru">>}
Crops == {<<"maize">>}
Seasons == {<<"rainy">>}

VARIABLES
    activeBtns,       \* tab buttons carrying class 'active'
    activePanes,      \* tab panes carrying class 'active'
    currentLanguage,  \* let currentLanguage
    langLabel,        \* langToggle.innerHTML
    sessionId,        \* let sessionId
    chatInput,        \* chatInput.value
    transcript,       \* children of #chatMessages, in document order
    overlay,          \* loadingOverlay.style.display
    requests,         \* the flow invocations suspended at an await, in issue order
    issued,           \* how many invocations have issued a request
    hideCalls,        \* how many times showLoading(false) has run
    imageInput,       \* imageInput.files[0]
    reads,            \* FileReader reads started and not yet loaded
    selected,         \* the file handed to handleImageSelect most recently
    previewSrc,       \* previewImg.src
    previewDisplay,   \* imagePreview.style.display
    uploadDisplay,    \* uploadArea.style.display
    analyzeDisabled,  \* analyzeBtn.disabled
    resultsContent,   \* resultsContent.innerHTML
    resultsDisplay,   \* analysisResults.style.display
    tipsContent,      \* tipsContent.innerHTML
    tipsDisplay,      \* tipsResults.style.display
    last              \* the handler or callback that ran last, and the alert it raised

vars == <<activeBtns, activePanes, currentLanguage, langLabel, sessionId,
          chatInput, transcript, overlay, requests, issued, hideCalls,
          imageInput, reads, selected, previewSrc, previewDisplay,
          uploadDisplay, analyzeDisabled, resultsContent, resultsDisplay, tipsContent,
          tipsDisplay, last>>

tabVars == <<activeBtns, activePanes>>
langVars == <<currentLanguage, langLabel>>
chatVars == <<chatInput, transcript>>
netVars == <<overlay, requests, issued, hideCalls>>
imageVars == <<imageInput, reads, selected, previewSrc, previewDisplay,
               uploadDisplay, analyzeDisabled>>
resultVars == <<resultsContent, resultsDisplay, tipsContent, tipsDisplay>>

NoAlert == <<>>
Undefined == <<"undefined">>
Event(op, arg, alert) == [op |-> op, arg |-> arg, alert |-> alert]

\* ----------------------------------------------------------- page load
\* generateSessionId: 'session_' + Date.now() + '_' + random suffix
generateSessionId == SessionIds

LabelHtml(lang) ==
    IF lang = "en" THEN "<i class=\"fas fa-globe\"></i> English"
    ELSE "<i class=\"fas fa-globe\"></i> Kiswahili"

\* module-level declarations of the script
InitScript ==
    /\ currentLanguage = "en"
    /\ sessionId \in generateSessionId

\* the tab the page's markup opens on
InitTabs ==
    /\ activeBtns = {1}
    /\ activePanes = {1}

\* any assignment of class 'active' the markup could make
InitAnyTabs ==
    /\ activeBtns \in SUBSET TabBtns
    /\ activePanes \in SUBSET TabPanes

\* the state the page's markup and stylesheet give the other elements
InitMarkup ==
    /\ langLabel = LabelHtml("en")
    /\ chatInput = <<>>
    /\ transcript = <<>>
    /\ overlay = "none"
    /\ imageInput = NoFile
    /\ previewSrc = <<>>
    /\ previewDisplay = "none"
    /\ uploadDisplay = "block"
    /\ analyzeDisabled = TRUE
    /\ resultsContent = <<>>
    /\ resultsDisplay = "none"
    /\ tipsContent = <<>>
    /\ tipsDisplay = "none"

\* nothing has run yet
InitIdle ==
    /\ requests = <<>>
    /\ issued = 0
    /\ hideCalls = 0
    /\ reads = <<>>
    /\ selected = NoFile
    /\ last = Event("load", "none", NoAlert)

Init == InitScript /\ InitTabs /\ InitMarkup /\ InitIdle

InitPage == InitScript /\ InitAnyTabs /\ InitMarkup /\ InitIdle

\* ----------------------------------------------------------- tabs
TabClickKeepsOthers(b) ==
    /\ activeBtns' = activeBtns \cup {b}
    /\ activePanes' = activePanes \cup {DatasetTab(b)}
    /\ last' = Event("tabClick", b, NoAlert)
    /\ UNCHANGED <<langVars, sessionId, chatVars, netVars, imageVars,
                   resultVars>>

\* click listener of tab button b
TabClick(b) ==
    /\ activeBtns' = (activeBtns \ TabBtns) \cup {b}
    /\ activePanes' = (activePanes \ TabPanes) \cup {DatasetTab(b)}
    /\ last' = Event("tabClick", b, NoAlert)
    /\ UNCHANGED <<langVars, sessionId, chatVars, netVars, imageVars,
                   resultVars>>

\* ----------------------------------------------------------- language
\* click listener of the language toggle
LangToggleClickOneWay ==
    /\ currentLanguage' = "sw"
    /\ langLabel' = LabelHtml(currentLanguage')
    /\ last' = Event("langToggle", "none", NoAlert)
    /\ UNCHANGED <<tabVars, sessionId, chatVars, netVars, imageVars,
                   resultVars>>

LangToggleClickNewSession ==
    /\ currentLanguage' = (IF currentLanguage = "en" THEN "sw" ELSE "en")
    /\ langLabel' = LabelHtml(currentLanguage')
    /\ sessionId' \in generateSessionId
    /\ last' = Event("langToggle", "none", NoAlert)
    /\ UNCHANGED <<tabVars, chatVars, netVars, imageVars, resultVars>>

LangToggleClick ==
    /\ currentLanguage' = (IF currentLanguage = "en" THEN "sw" ELSE "en")
    /\ langLabel' = LabelHtml(currentLanguage')
    /\ last' = Event("langToggle", "none", NoAlert)
    /\ UNCHANGED <<tabVars, sessionId, chatVars, netVars, imageVars,
                   resultVars>>

\* ----------------------------------------------------------- utilities
showLoading(show) == IF show THEN "flex" ELSE "none"

\* the characters String.prototype.trim strips: WhiteSpace and
\* LineTerminator of ECMAScript; a character with no escape of its own in
\* these strings is written by its \u escape spelled out
WhiteSpace ==
    { "\t", "\\u000B", "\f", " ", "\\u00A0", "\\uFEFF", "\\u1680",
      "\\u2000", "\\u2001", "\\u2002", "\\u2003", "\\u2004", "\\u2005",
      "\\u2006", "\\u2007", "\\u2008", "\\u2009", "\\u200A", "\\u202F",
      "\\u205F", "\\u3000" }
LineTerminator == { "\n", "\r", "\\u2028", "\\u2029" }

IsWhitespace(c) == c \in WhiteSpace \cup LineTerminator

\* String.prototype.trim: drop the whitespace at both ends
RECURSIVE TrimStart(_)
TrimStart(s) ==
    IF s # <<>> /\ IsWhitespace(Head(s)) THEN TrimStart(Tail(s)) ELSE s

RECURSIVE TrimEnd(_)
TrimEnd(s) ==
    IF s # <<>> /\ IsWhitespace(s[Len(s)])
    THEN TrimEnd(SubSeq(s, 1, Len(s) - 1)) ELSE s

TrimNothing(s) == s

TrimStartOnly(s) == TrimStart(s)

Trim(s) == TrimEnd(TrimStart(s))

RemoveAt(s, k) == SubSeq(s, 1, k - 1) \o SubSeq(s, k + 1, Len(s))

\* ----------------------------------------------------------- network
\* what the server can answer; the client reads only the parsed body
Statuses == {200, 500}
Replies == {<<"ok">>}
ErrorTexts == {<<"quota exceeded">>}

ChatData ==
    {[success |-> TRUE, response |-> r, error |-> Undefined] : r \in Replies}
    \cup {[success |-> FALSE, response |-> Undefined, error |-> e] : e \in ErrorTexts}

\* an invocation suspended at `await fetch(...)`; entry is the place of the
\* transcript entry it appended before the call (0: none)
Request(flow, body, entry) ==
    [flow |-> flow, phase |-> "fetch", body |-> body, status |-> 0,
     entry |-> entry]

\* the two ways an await ends: the promise rejects, or it resolves with a value
Threw == [threw |-> TRUE]
Returned(data) == [threw |-> FALSE, data |-> data]

\* what a settled invocation leaves in `last`
Settled(r, result) == [request |-> r, result |-> result]

\* fetch resolves with a response of any status; the body is not read yet
FetchResolve(i, status) ==
    /\ requests[i].phase = "fetch"
    /\ requests' = [requests EXCEPT ![i].phase = "json", ![i].status = status]
    /\ last' = Event("fetchResolve", requests[i].flow, NoAlert)
    /\ UNCHANGED <<tabVars, langVars, sessionId, chatVars, overlay, issued,
                   hideCalls, imageVars, resultVars>>

\* ----------------------------------------------------------- chat
SorryMessage == <<"Sorry, I encountered an error. Please try again.">>
ConnectionMessage ==
    <<"Connection error. Please check your internet and try again.">>

Entry(message, sender) == [sender |-> sender, text |-> message]

addMessageToChatFirst(chatMessages, message, sender) ==
    <<Entry(message, sender)>> \o chatMessages

addMessageToChat(chatMessages, message, sender) ==
    Append(chatMessages, Entry(message, sender))

\* the user edits the chat box
ChatInputType(s) ==
    /\ chatInput' = s
    /\ last' = Event("chatType", "none", NoAlert)
    /\ UNCHANGED <<tabVars, langVars, sessionId, transcript, netVars,
                   imageVars, resultVars>>

\* sendMessage up to its first await
sendMessage(trigger) ==
    LET message == Trim(chatInput) IN
    IF message = <<>>
    THEN /\ last' = Event("sendBlank", trigger, NoAlert)
         /\ UNCHANGED <<tabVars, langVars, sessionId, chatVars, netVars,
                        imageVars, resultVars>>
    ELSE /\ issued < MaxRequests
         /\ issued' = issued + 1
         /\ transcript' = addMessageToChat(transcript, message, "user")
         /\ chatInput' = <<>>
         /\ overlay' = showLoading(TRUE)
         /\ requests' = Append(requests,
                Request("chat", [message |-> message,
                                 session_id |-> sessionId,
                                 language |-> currentLanguage],
                        Len(transcript')))
         /\ last' = Event("send", trigger, NoAlert)
         /\ UNCHANGED <<tabVars, langVars, sessionId, hideCalls, imageVars,
                        resultVars>>

\* click listener of the send button
SendBtnClick == sendMessage("click")

ChatKeys == {"Enter", "h"}

\* keypress listener of the chat box
ChatKeypress(key) ==
    IF key = "Enter"
    THEN sendMessage("Enter")
    ELSE /\ last' = Event("keypress", key, NoAlert)
         /\ UNCHANGED <<tabVars, langVars, sessionId, chatVars, netVars,
                        imageVars, resultVars>>

BotReplyRawError(result) ==
    IF result.threw THEN ConnectionMessage
    ELSE IF result.data.success THEN result.data.response
    ELSE result.data.error

\* the text sendMessage appends once its awaits have ended
BotReply(result) ==
    IF result.threw THEN ConnectionMessage
    ELSE IF result.data.success THEN result.data.response
    ELSE SorryMessage

\* the reply put right under the message it answers
sendMessageResumeThreaded(i, result) ==
    /\ transcript' = SubSeq(transcript, 1, requests[i].entry)
                        \o <<Entry(BotReply(result), "bot")>>
                        \o SubSeq(transcript, requests[i].entry + 1,
                                  Len(transcript))
    /\ overlay' = showLoading(FALSE)
    /\ hideCalls' = hideCalls + 1
    /\ requests' = RemoveAt(requests, i)
    /\ last' = Event("settle", Settled(requests[i], result), NoAlert)
    /\ UNCHANGED <<tabVars, langVars, sessionId, chatInput, issued,
                   imageVars, resultVars>>

sendMessageResumeNoFinally(i, result) ==
    /\ transcript' = addMessageToChat(transcript, BotReply(result), "bot")
    /\ IF result.threw
       THEN UNCHANGED <<overlay, hideCalls>>
       ELSE /\ overlay' = showLoading(FALSE)
            /\ hideCalls' = hideCalls + 1
    /\ requests' = RemoveAt(requests, i)
    /\ last' = Event("settle", Settled(requests[i], result), NoAlert)
    /\ UNCHANGED <<tabVars, langVars, sessionId, chatInput, issued,
                   imageVars, resultVars>>

\* sendMessage from the end of its awaits: try body, catch, finally
sendMessageResume(i, result) ==
    /\ transcript' = addMessageToChat(transcript, BotReply(result), "bot")
    /\ overlay' = showLoading(FALSE)
    /\ hideCalls' = hideCalls + 1
    /\ requests' = RemoveAt(requests, i)
    /\ last' = Event("settle", Settled(requests[i], result), NoAlert)
    /\ UNCHANGED <<tabVars, langVars, sessionId, chatInput, issued,
                   imageVars, resultVars>>

\* ----------------------------------------------------------- JSON values
JStr(text) == [kind |-> "string", text |-> text, items |-> <<>>]
JArr(items) == [kind |-> "array", text |-> <<>>, items |-> items]
JMap(items) == [kind |-> "object", text |-> <<>>, items |-> items]
JUndefined == [kind |-> "undefined", text |-> <<>>, items |-> <<>>]

\* a member of an object, in the order Object.entries lists them: for keys
\* that are not integer-like, the order of the JSON text
Member(key, value) == [key |-> key, value |-> value]

\* obj[key]; undefined on a string and on a missing key
Field(obj, key) ==
    IF obj.kind = "object" /\ \E k \in DOMAIN obj.items : obj.items[k].key = key
    THEN obj.items[CHOOSE k \in DOMAIN obj.items : obj.items[k].key = key].value
    ELSE JUndefined

Truthy(v) == ~(v.kind = "undefined" \/ (v.kind = "string" /\ v.text = <<>>))

\* ----------------------------------------------------------- image flow
StartsWith(s, prefix) ==
    /\ Len(s) >= Len(prefix)
    /\ SubSeq(s, 1, Len(prefix)) = prefix

\* FileReader.readAsDataURL result for a file
DataURL(file) == <<"data:">> \o file.type \o <<";base64,", file.data>>

\* handleImageSelect: start a read whose onload renders the preview
handleImageSelect(file) ==
    /\ Len(reads) < MaxReads
    /\ reads' = Append(reads, file)
    /\ selected' = file

\* change listener of the file input; the browser has put the chosen file in it
ImageInputChange(file) ==
    /\ imageInput' = file
    /\ IF file # NoFile
       THEN handleImageSelect(file)
       ELSE UNCHANGED <<reads, selected>>
    /\ last' = Event("change", file, NoAlert)
    /\ UNCHANGED <<tabVars, langVars, sessionId, chatVars, netVars,
                   previewSrc, previewDisplay, uploadDisplay, analyzeDisabled,
                   resultVars>>

\* the drop listener without its check of the declared type
DropAnyFile(file) ==
    /\ IF file # NoFile
       THEN handleImageSelect(file)
       ELSE UNCHANGED <<reads, selected>>
    /\ last' = Event("drop", file, NoAlert)
    /\ UNCHANGED <<tabVars, langVars, sessionId, chatVars, netVars,
                   imageInput, previewSrc, previewDisplay, uploadDisplay,
                   analyzeDisabled, resultVars>>

\* drop listener of the upload area
Drop(file) ==
    /\ IF file # NoFile /\ StartsWith(file.type, <<"image/">>)
       THEN handleImageSelect(file)
       ELSE UNCHANGED <<reads, selected>>
    /\ last' = Event("drop", file, NoAlert)
    /\ UNCHANGED <<tabVars, langVars, sessionId, chatVars, netVars,
                   imageInput, previewSrc, previewDisplay, uploadDisplay,
                   analyzeDisabled, resultVars>>

\* the reader callback leaving the upload prompt on screen
ReaderOnloadKeepsPrompt(k) ==
    /\ k \in DOMAIN reads
    /\ previewSrc' = DataURL(reads[k])
    /\ uploadDisplay' = uploadDisplay
    /\ previewDisplay' = "block"
    /\ analyzeDisabled' = FALSE
    /\ reads' = RemoveAt(reads, k)
    /\ last' = Event("onload", reads[k], NoAlert)
    /\ UNCHANGED <<tabVars, langVars, sessionId, chatVars, netVars,
                   imageInput, selected, resultVars>>

\* reader.onload of the k-th pending read
ReaderOnload(k) ==
    /\ k \in DOMAIN reads
    /\ previewSrc' = DataURL(reads[k])
    /\ uploadDisplay' = "none"
    /\ previewDisplay' = "block"
    /\ analyzeDisabled' = FALSE
    /\ reads' = RemoveAt(reads, k)
    /\ last' = Event("onload", reads[k], NoAlert)
    /\ UNCHANGED <<tabVars, langVars, sessionId, chatVars, netVars,
                   imageInput, selected, resultVars>>

\* click listener of the remove button
RemoveClick ==
    /\ imageInput' = NoFile
    /\ previewDisplay' = "none"
    /\ uploadDisplay' = "block"
    /\ analyzeDisabled' = TRUE
    /\ last' = Event("remove", "none", NoAlert)
    /\ UNCHANGED <<tabVars, langVars, sessionId, chatVars, netVars,
                   reads, selected, previewSrc, resultVars>>

SelectFirstAlert == <<"Please select an image first">>
AnalyzeFailedAlert == <<"Failed to analyze image. Please try again.">>

\* analyzeCrop without its look at the file input
AnalyzeBtnClickUnchecked(locationValue) ==
    /\ ~analyzeDisabled
    /\ LET location == IF locationValue = <<>> THEN <<"Kenya">>
                       ELSE locationValue
       IN /\ issued < MaxRequests
          /\ issued' = issued + 1
          /\ overlay' = showLoading(TRUE)
          /\ requests' = Append(requests,
                 Request("analyze", [image |-> imageInput,
                                     location |-> location,
                                     language |-> currentLanguage],
                         0))
          /\ last' = Event("analyze", "none", NoAlert)
    /\ UNCHANGED <<tabVars, langVars, sessionId, chatVars, hideCalls,
                   imageVars, resultVars>>

\* analyzeCrop up to its first await; a disabled button dispatches no click
AnalyzeBtnClick(locationValue) ==
    /\ ~analyzeDisabled
    /\ LET location == IF locationValue = <<>> THEN <<"Kenya">>
                       ELSE locationValue
       IN IF imageInput = NoFile
          THEN /\ last' = Event("analyzeRejected", "none", SelectFirstAlert)
               /\ UNCHANGED <<overlay, requests, issued>>
          ELSE /\ issued < MaxRequests
               /\ issued' = issued + 1
               /\ overlay' = showLoading(TRUE)
               /\ requests' = Append(requests,
                      Request("analyze", [image |-> imageInput,
                                          location |-> location,
                                          language |-> currentLanguage],
                              0))
               /\ last' = Event("analyze", "none", NoAlert)
    /\ UNCHANGED <<tabVars, langVars, sessionId, chatVars, hideCalls,
                   imageVars, resultVars>>

\* a text is cut so that every asterisk and every line terminator is a
\* piece of its own; ** is two neighbouring "*" pieces
IsMark(s, k) == k + 1 <= Len(s) /\ s[k] = "*" /\ s[k + 1] = "*"

\* /\*\*(.*?)\*\*/ tried at the start of s: the place of the nearest closing
\* ** after the opening one with no line terminator in between (the dot
\* matches none), 0 when there is no match here
ClosingMark(s) ==
    LET marks == {k \in 3..Len(s) :
                     /\ IsMark(s, k)
                     /\ \A n \in 3..(k - 1) : s[n] \notin LineTerminator}
    IN IF IsMark(s, 1) /\ marks # {}
       THEN CHOOSE m \in marks : \A n \in marks : m <= n
       ELSE 0

\* replace(/\*\*(.*?)\*\*/g, '<strong>$1</strong>'): matches taken from the
\* left, the search going on after each match
RECURSIVE ReplaceBold(_)
ReplaceBold(s) ==
    IF s = <<>> THEN <<>>
    ELSE IF ClosingMark(s) # 0
    THEN <<"<strong>">> \o SubSeq(s, 3, ClosingMark(s) - 1) \o <<"</strong>">>
         \o ReplaceBold(SubSeq(s, ClosingMark(s) + 2, Len(s)))
    ELSE <<Head(s)>> \o ReplaceBold(Tail(s))

\* replace(/\n\n/g, '</p><p>')
RECURSIVE ReplaceParagraphs(_)
ReplaceParagraphs(s) ==
    IF s = <<>> THEN <<>>
    ELSE IF Len(s) >= 2 /\ s[1] = "\n" /\ s[2] = "\n"
    THEN <<"</p><p>">> \o ReplaceParagraphs(SubSeq(s, 3, Len(s)))
    ELSE <<Head(s)>> \o ReplaceParagraphs(Tail(s))

\* replace(/\n/g, '<br>')
ReplaceBreaks(s) == [k \in DOMAIN s |-> IF s[k] = "\n" THEN "<br>" ELSE s[k]]

\* analysisData.analysis || analysisData
AnalysisOf(analysisData) ==
    IF Truthy(Field(analysisData, <<"analysis">>))
    THEN Field(analysisData, <<"analysis">>)
    ELSE analysisData

\* formatAnalysis throws on undefined and on an analysis that is no string
CanFormatAnalysis(analysisData) ==
    /\ analysisData.kind # "undefined"
    /\ AnalysisOf(analysisData).kind = "string"

formatAnalysis(analysisData) ==
    LET analysis == AnalysisOf(analysisData).text
        formatted == ReplaceBreaks(ReplaceParagraphs(ReplaceBold(analysis)))
    IN <<"<div class=\"analysis-text\"><p>">> \o formatted \o <<"</p></div>">>

\* an analysis with a bold span followed by a third asterisk, a paragraph
\* break, a ** pair with a carriage return inside, and a line break
AnalysisTexts ==
    { <<"*", "*", "blight", "*", "*", "*", "\n", "\n",
        "*", "*", "spray", "\r", "*", "*", "\n", "soon">> }

AnalyzeData ==
    {[success |-> TRUE, analysis |-> a, error |-> Undefined] :
        a \in {JStr(t) : t \in AnalysisTexts}
              \cup {JMap(<<Member(<<"analysis">>, JStr(t))>>) :
                        t \in AnalysisTexts}
              \cup {JUndefined}}
    \cup {[success |-> FALSE, analysis |-> JUndefined, error |-> e] :
             e \in ErrorTexts}

\* analyzeCrop from the end of its awaits: try body, catch, finally
analyzeCropResume(i, result) ==
    LET rendered == /\ ~result.threw
                    /\ result.data.success
                    /\ CanFormatAnalysis(result.data.analysis)
        alert == IF rendered THEN NoAlert
                 ELSE IF ~result.threw /\ ~result.data.success
                 THEN <<"Analysis failed: ">> \o result.data.error
                 ELSE AnalyzeFailedAlert
    IN /\ IF rendered
          THEN /\ resultsContent' = formatAnalysis(result.data.analysis)
               /\ resultsDisplay' = "block"
          ELSE UNCHANGED <<resultsContent, resultsDisplay>>
       /\ overlay' = showLoading(FALSE)
       /\ hideCalls' = hideCalls + 1
       /\ requests' = RemoveAt(requests, i)
       /\ last' = Event("settle", Settled(requests[i], result), alert)
       /\ UNCHANGED <<tabVars, langVars, sessionId, chatVars, issued,
                      imageVars, tipsContent, tipsDisplay>>

\* ----------------------------------------------------------- tips flow
TipsFetchAlert == <<"Failed to fetch farming tips.">>

GetTipsBtnClickEnglish(crop, season) ==
    /\ issued < MaxRequests
    /\ issued' = issued + 1
    /\ overlay' = showLoading(TRUE)
    /\ requests' = Append(requests,
           Request("tips", [crop |-> crop, season |-> season,
                            language |-> "en"],
                   0))
    /\ last' = Event("getTips", "none", NoAlert)
    /\ UNCHANGED <<tabVars, langVars, sessionId, chatVars, hideCalls,
                   imageVars, resultVars>>

\* getFarmingTips up to its first await
GetTipsBtnClick(crop, season) ==
    /\ issued < MaxRequests
    /\ issued' = issued + 1
    /\ overlay' = showLoading(TRUE)
    /\ requests' = Append(requests,
           Request("tips", [crop |-> crop, season |-> season,
                            language |-> currentLanguage],
                   0))
    /\ last' = Event("getTips", "none", NoAlert)
    /\ UNCHANGED <<tabVars, langVars, sessionId, chatVars, hideCalls,
                   imageVars, resultVars>>

LowerCase ==
    <<"a", "b", "c", "d", "e", "f", "g", "h", "i", "j", "k", "l", "m",
      "n", "o", "p", "q", "r", "s", "t", "u", "v", "w", "x", "y", "z">>
UpperCase ==
    <<"A", "B", "C", "D", "E", "F", "G", "H", "I", "J", "K", "L", "M",
      "N", "O", "P", "Q", "R", "S", "T", "U", "V", "W", "X", "Y", "Z">>

\* String.prototype.toUpperCase on one character of an ASCII key
toUpperCase(c) ==
    IF \E k \in DOMAIN LowerCase : LowerCase[k] = c
    THEN UpperCase[CHOOSE k \in DOMAIN LowerCase : LowerCase[k] = c]
    ELSE c

\* the heading upper-cased with its underscores left in
HeadingUnderscored(key) ==
    [k \in DOMAIN key |-> toUpperCase(key[k])]

\* key.replace(/_/g, ' ').toUpperCase()
Heading(key) ==
    [k \in DOMAIN key |-> toUpperCase(IF key[k] = "_" THEN " " ELSE key[k])]

\* Array.prototype.join('<br>') of an array of strings
RECURSIVE Join(_)
Join(items) ==
    IF items = <<>> THEN <<>>
    ELSE IF Len(items) = 1 THEN items[1].text
    ELSE items[1].text \o <<"<br>">> \o Join(Tail(items))

\* ${...} of a value: an array joined, a string as it is, an object by its
\* default toString
TipBody(value) ==
    CASE value.kind = "array" -> Join(value.items)
      [] value.kind = "object" -> <<"[object Object]">>
      [] OTHER -> value.text

\* the for-of loop of formatTips over Object.entries(tips)
RECURSIVE TipSections(_)
TipSections(entries) ==
    IF entries = <<>> THEN <<>>
    ELSE <<"\n            <div class=\"tip-section\">\n                <h4>">>
         \o Heading(entries[1].key)
         \o <<"</h4>\n                <p>">>
         \o TipBody(entries[1].value)
         \o <<"</p>\n            </div>\n        ">>
         \o TipSections(Tail(entries))

\* Object.entries throws on undefined; the server sends a string or a mapping
CanFormatTips(tips) == tips.kind # "undefined"

formatTips(tips) ==
    IF tips.kind = "string"
    THEN <<"<div class=\"tips-text\">">> \o tips.text \o <<"</div>">>
    ELSE <<"<div class=\"structured-tips\">">> \o TipSections(tips.items)
         \o <<"</div>">>

TipsValues ==
    { JStr(<<"water early">>),
      JMap(<<Member(<<"a", "_", "b">>, JArr(<<JStr(<<"daily">>), JStr(<<"morning">>)>>)),
             Member(<<"b">>, JStr(<<"weekly">>))>>),
      JUndefined }

TipsData ==
    {[success |-> TRUE, tips |-> t, error |-> Undefined] : t \in TipsValues}
    \cup {[success |-> FALSE, tips |-> JUndefined, error |-> e] : e \in ErrorTexts}

\* a wider range of tips for the formatter: strings, and mappings of up to
\* two keys to a string, a list of up to two strings, or a nested mapping
TipKeys == { <<"b">>, <<"a", "_", "b">>,
             <<"w", "a", "t", "e", "r", "i", "n", "g">> }
TipTexts == { <<"daily">>, <<"morning">> }
TipLists ==
    { <<>>, <<JStr(<<"daily">>)>>,
      <<JStr(<<"daily">>), JStr(<<"morning">>)>>,
      <<JStr(<<"morning">>), JStr(<<"daily">>)>> }
TipMemberValues ==
    { JStr(t) : t \in TipTexts } \cup { JArr(l) : l \in TipLists }
        \cup { JMap(<<>>) }
TipMembers == { Member(k, v) : k \in TipKeys, v \in TipMemberValues }
TipMappings ==
    {<<>>} \cup { <<m>> : m \in TipMembers }
           \cup { p \in { <<m, n>> : m \in TipMembers, n \in TipMembers } :
                      p[1].key # p[2].key }
FormatterTips ==
    { JStr(t) : t \in TipTexts } \cup { JMap(items) : items \in TipMappings }
FormatterData ==
    { [success |-> TRUE, tips |-> t, error |-> Undefined] : t \in FormatterTips }

\* getFarmingTips from the end of its awaits: try body, catch, finally
getFarmingTipsResume(i, result) ==
    LET rendered == /\ ~result.threw
                    /\ result.data.success
                    /\ CanFormatTips(result.data.tips)
        alert == IF rendered THEN NoAlert
                 ELSE IF ~result.threw /\ ~result.data.success
                 THEN <<"Failed to get tips: ">> \o result.data.error
                 ELSE TipsFetchAlert
    IN /\ IF rendered
          THEN /\ tipsContent' = formatTips(result.data.tips)
               /\ tipsDisplay' = "block"
          ELSE UNCHANGED <<tipsContent, tipsDisplay>>
       /\ overlay' = showLoading(FALSE)
       /\ hideCalls' = hideCalls + 1
       /\ requests' = RemoveAt(requests, i)
       /\ last' = Event("settle", Settled(requests[i], result), alert)
       /\ UNCHANGED <<tabVars, langVars, sessionId, chatVars, issued,
                      imageVars, resultsContent, resultsDisplay>>

\* ----------------------------------------------------------- settling
\* the parsed bodies the server of a flow can send
FlowData(flow) ==
    CASE flow = "chat" -> ChatData
      [] flow = "analyze" -> AnalyzeData
      [] flow = "tips" -> TipsData

\* the rest of the invocation that issued request i
Resume(i, result) ==
    CASE requests[i].flow = "chat" -> sendMessageResume(i, result)
      [] requests[i].flow = "analyze" -> analyzeCropResume(i, result)
      [] requests[i].flow = "tips" -> getFarmingTipsResume(i, result)

\* fetch rejects: network failure
FetchReject(i) ==
    /\ requests[i].phase = "fetch"
    /\ Resume(i, Threw)

\* response.json() rejects: the body is not JSON
JsonReject(i) ==
    /\ requests[i].phase = "json"
    /\ Resume(i, Threw)

\* response.json() resolves with the parsed body
JsonResolve(i, data) ==
    /\ requests[i].phase = "json"
    /\ Resume(i, Returned(data))

RequestIds == DOMAIN requests

Next ==
    \/ \E b \in TabBtns : TabClick(b)
    \/ LangToggleClick
    \/ \E s \in ChatInputs : ChatInputType(s)
    \/ SendBtnClick
    \/ \E key \in ChatKeys : ChatKeypress(key)
    \/ \E f \in Files \cup {NoFile} : ImageInputChange(f)
    \/ \E f \in Files \cup {NoFile} : Drop(f)
    \/ \E k \in DOMAIN reads : ReaderOnload(k)
    \/ RemoveClick
    \/ \E loc \in LocationValues : AnalyzeBtnClick(loc)
    \/ \E crop \in Crops, season \in Seasons : GetTipsBtnClick(crop, season)
    \/ \E i \in RequestIds, status \in Statuses : FetchResolve(i, status)
    \/ \E i \in RequestIds : FetchReject(i)
    \/ \E i \in RequestIds : JsonReject(i)
    \/ \E i \in RequestIds : \E data \in FlowData(requests[i].flow) :
           JsonResolve(i, data)

Spec == Init /\ [][Next]_vars

\* the page chrome: tabs over any markup, and the language toggle
NextPage ==
    \/ \E b \in TabBtns : TabClick(b)
    \/ LangToggleClick

SpecPage == InitPage /\ [][NextPage]_vars

\* the chat flow on its own: every chat-box content, every network outcome
NextChat ==
    \/ \E s \in ChatInputs : ChatInputType(s)
    \/ SendBtnClick
    \/ \E key \in ChatKeys : ChatKeypress(key)
    \/ \E i \in RequestIds : FetchResolve(i, 200)
    \/ \E i \in RequestIds : FetchReject(i)
    \/ \E i \in RequestIds : JsonReject(i)
    \/ \E i \in RequestIds : \E data \in FlowData(requests[i].flow) :
           JsonResolve(i, data)

SpecChat == Init /\ [][NextChat]_vars

\* the three flows side by side, with one chat message and one image
NextFlows ==
    \/ ChatInputType(<<"h">>)
    \/ SendBtnClick
    \/ \E f \in ImageFiles : ImageInputChange(f)
    \/ \E k \in DOMAIN reads : ReaderOnload(k)
    \/ AnalyzeBtnClick(<<>>)
    \/ \E crop \in Crops, season \in Seasons : GetTipsBtnClick(crop, season)
    \/ \E i \in RequestIds : FetchResolve(i, 200)
    \/ \E i \in RequestIds : FetchReject(i)
    \/ \E i \in RequestIds : JsonReject(i)
    \/ \E i \in RequestIds : \E data \in FlowData(requests[i].flow) :
           JsonResolve(i, data)

SpecFlows == Init /\ [][NextFlows]_vars

\* chat sessions: chat and tips requests among tab switches, language
\* toggles and failures
NextSession ==
    \/ \E b \in TabBtns : TabClick(b)
    \/ LangToggleClick
    \/ ChatInputType(<<"h">>)
    \/ SendBtnClick
    \/ \E crop \in Crops, season \in Seasons : GetTipsBtnClick(crop, season)
    \/ \E i \in RequestIds : FetchResolve(i, 200)
    \/ \E i \in RequestIds : FetchReject(i)
    \/ \E i \in RequestIds : JsonReject(i)
    \/ \E i \in RequestIds : \E data \in FlowData(requests[i].flow) :
           JsonResolve(i, data)

SpecSession == Init /\ [][NextSession]_vars

\* the language toggle among the three flows and their rendered results;
\* the user picks an image once
NextLang ==
    \/ LangToggleClick
    \/ ChatInputType(<<"h">>)
    \/ SendBtnClick
    \/ \E f \in ImageFiles : imageInput = NoFile /\ ImageInputChange(f)
    \/ \E k \in DOMAIN reads : ReaderOnload(k)
    \/ AnalyzeBtnClick(<<>>)
    \/ \E crop \in Crops, season \in Seasons : GetTipsBtnClick(crop, season)
    \/ \E i \in RequestIds : FetchResolve(i, 200)
    \/ \E i \in RequestIds : \E data \in FlowData(requests[i].flow) :
           JsonResolve(i, data)

SpecLang == Init /\ [][NextLang]_vars

\* the image flow: every file through the file input and the drop area,
\* reads completing in any order, remove and analyze clicks; the requests
\* it issues stay in flight
NextImage ==
    \/ \E f \in Files \cup {NoFile} : ImageInputChange(f)
    \/ \E f \in Files \cup {NoFile} : Drop(f)
    \/ \E k \in DOMAIN reads : ReaderOnload(k)
    \/ RemoveClick
    \/ AnalyzeBtnClick(<<>>)

SpecImage == Init /\ [][NextImage]_vars

\* the analysis flow end to end: one picture through the file input or the
\* drop area, and every network outcome
NextAnalyze ==
    \/ \E f \in ImageFiles \cup {NoFile} : ImageInputChange(f)
    \/ \E f \in ImageFiles : Drop(f)
    \/ \E k \in DOMAIN reads : ReaderOnload(k)
    \/ RemoveClick
    \/ \E loc \in LocationValues : AnalyzeBtnClick(loc)
    \/ \E i \in RequestIds : FetchResolve(i, 200)
    \/ \E i \in RequestIds : FetchReject(i)
    \/ \E i \in RequestIds : JsonReject(i)
    \/ \E i \in RequestIds : \E data \in FlowData(requests[i].flow) :
           JsonResolve(i, data)

SpecAnalyze == Init /\ [][NextAnalyze]_vars

\* the three flows against a server that answers with any status and body
NextStatus ==
    \/ ChatInputType(<<"h">>)
    \/ SendBtnClick
    \/ \E f \in ImageFiles : imageInput = NoFile /\ ImageInputChange(f)
    \/ \E k \in DOMAIN reads : ReaderOnload(k)
    \/ AnalyzeBtnClick(<<>>)
    \/ \E crop \in Crops, season \in Seasons : GetTipsBtnClick(crop, season)
    \/ \E i \in RequestIds, status \in Statuses : FetchResolve(i, status)
    \/ \E i \in RequestIds : FetchReject(i)
    \/ \E i \in RequestIds : JsonReject(i)
    \/ \E i \in RequestIds : \E data \in FlowData(requests[i].flow) :
           JsonResolve(i, data)

SpecStatus == Init /\ [][NextStatus]_vars

\* the tips flow, one request after the other, answered with every tips
\* value of FormatterTips
NextTips ==
    \/ \E crop \in Crops, season \in Seasons :
           requests = <<>> /\ GetTipsBtnClick(crop, season)
    \/ \E i \in RequestIds : FetchResolve(i, 200)
    \/ \E i \in RequestIds : \E data \in FormatterData : JsonResolve(i, data)

SpecTips == Init /\ [][NextTips]_vars

\* ----------------------------------------------------------- tab claims
ExactlyActive(b) ==
    /\ activeBtns = {b}
    /\ activePanes = {DatasetTab(b)}

\* C1: after every tab click exactly the clicked button and its pane are
\* active, exactly one of each stays active through whatever follows, and a
\* click on the tab that is already the active one changes nothing
C1_TabsExclusive ==
    /\ [](last.op = "tabClick" => ExactlyActive(last.arg))
    /\ [][(Cardinality(activeBtns) = 1 /\ Cardinality(activePanes) = 1)
            => (Cardinality(activeBtns') = 1 /\ Cardinality(activePanes') = 1)]_vars
    /\ [][\A b \in TabBtns :
            (ExactlyActive(b) /\ last'.op = "tabClick" /\ last'.arg = b)
                => UNCHANGED tabVars]_vars

C1_Witness ==
    /\ last.op = "tabClick"
    /\ last.arg = 2
    /\ activeBtns = {2}
    /\ activePanes = {2}

\* ----------------------------------------------------------- language claims
\* C9: the language is en or sw and starts as en; a click on the toggle
\* flips it to the other value and leaves the label reading English for en
\* and Kiswahili for sw, so a second click brings back the first state
C9_ToggleFlips ==
    /\ [](currentLanguage \in {"en", "sw"})
    /\ [](last.op = "load" => currentLanguage = "en")
    /\ [](last.op = "langToggle" =>
            langLabel = (IF currentLanguage = "en"
                         THEN "<i class=\"fas fa-globe\"></i> English"
                         ELSE "<i class=\"fas fa-globe\"></i> Kiswahili"))
    /\ [][last'.op = "langToggle" => currentLanguage' # currentLanguage]_vars

C9_Witness ==
    /\ last.op = "langToggle"
    /\ currentLanguage = "en"
    /\ langLabel = "<i class=\"fas fa-globe\"></i> English"

\* ----------------------------------------------------------- chat claims
\* the whitespace characters typed into the chat box in ChatInputs
BlankChars == { " ", "\t", "\n", "\r", "\\u00A0" }

IsBlank(s) == \A k \in DOMAIN s : s[k] \in BlankChars

\* t is s without the whitespace at its two ends
IsTrimOf(t, s) ==
    /\ t # <<>>
    /\ t[1] \notin BlankChars
    /\ t[Len(t)] \notin BlankChars
    /\ \E i \in 1..Len(s) :
          /\ SubSeq(s, i, i + Len(t) - 1) = t
          /\ IsBlank(SubSeq(s, 1, i - 1))
          /\ IsBlank(SubSeq(s, i + Len(t), Len(s)))

SendOps == {"send", "sendBlank"}

\* C4: a send (click or Enter) on an empty or whitespace-only chat box leaves
\* the transcript, the requests and the overlay as they were
C4_BlankSendNoOp ==
    [][(last'.op \in SendOps /\ IsBlank(chatInput))
          => UNCHANGED <<transcript, requests, issued, overlay, hideCalls>>]_vars

C4_Witness ==
    /\ last.op = "sendBlank"
    /\ last.arg = "Enter"
    /\ chatInput = <<"\t", "\n", "\\u00A0">>
    /\ overlay = "flex"
    /\ transcript # <<>>

\* C5: a send on a non-blank chat box appends one user entry with the trimmed
\* text, empties the box and issues the /chat request for that text in the
\* same step; the entry is still in its place while the request is pending
\* and when it settles, whatever the outcome
C5_UserEntryFirst ==
    /\ [][(last'.op \in SendOps /\ ~IsBlank(chatInput)) =>
            /\ Len(transcript') = Len(transcript) + 1
            /\ SubSeq(transcript', 1, Len(transcript)) = transcript
            /\ transcript'[Len(transcript')].sender = "user"
            /\ IsTrimOf(transcript'[Len(transcript')].text, chatInput)
            /\ chatInput' = <<>>
            /\ Len(requests') = Len(requests) + 1
            /\ requests'[Len(requests')].flow = "chat"
            /\ requests'[Len(requests')].phase = "fetch"
            /\ requests'[Len(requests')].body.message
                  = transcript'[Len(transcript')].text]_vars
    /\ [](\A i \in DOMAIN requests :
            requests[i].flow = "chat" =>
               /\ requests[i].entry \in DOMAIN transcript
               /\ transcript[requests[i].entry]
                     = [sender |-> "user", text |-> requests[i].body.message])
    /\ []((last.op = "settle" /\ last.arg.request.flow = "chat") =>
            /\ last.arg.request.entry \in DOMAIN transcript
            /\ transcript[last.arg.request.entry]
                  = [sender |-> "user",
                     text |-> last.arg.request.body.message])

C5_Witness ==
    /\ last.op = "settle"
    /\ last.arg.request.flow = "chat"
    /\ last.arg.result.threw
    /\ last.arg.request.body.message = <<"h", " ", "h">>
    /\ transcript[last.arg.request.entry]
          = [sender |-> "user", text |-> <<"h", " ", "h">>]

RECURSIVE CountSender(_, _)
CountSender(entries, sender) ==
    IF entries = <<>> THEN 0
    ELSE (IF Head(entries).sender = sender THEN 1 ELSE 0)
         + CountSender(Tail(entries), sender)

\* C6: a settled chat invocation has appended one bot entry at the end: the
\* reply of a success=true body, else one of the two fixed messages and never
\* the server's error text; the overlay is hidden; and the transcript holds
\* one bot entry per settled invocation
C6_OneBotEntry ==
    /\ []((last.op = "settle" /\ last.arg.request.flow = "chat") =>
            /\ transcript # <<>>
            /\ transcript[Len(transcript)].sender = "bot"
            /\ overlay = "none"
            /\ LET text == transcript[Len(transcript)].text
                   result == last.arg.result
               IN IF ~result.threw /\ result.data.success
                  THEN text = result.data.response
                  ELSE /\ text \in {SorryMessage, ConnectionMessage}
                       /\ text \notin ErrorTexts)
    /\ [](CountSender(transcript, "bot") = hideCalls)
    /\ [](CountSender(transcript, "bot") + Len(requests)
            = CountSender(transcript, "user"))

C6_Witness ==
    /\ last.op = "settle"
    /\ last.arg.request.flow = "chat"
    /\ last.arg.result.threw
    /\ last.arg.request.phase = "fetch"
    /\ transcript[Len(transcript)]
          = [sender |-> "bot", text |-> ConnectionMessage]
    /\ CountSender(transcript, "bot") = 1
    /\ overlay = "none"

\* C7: every step leaves the transcript as it is or adds one user or bot
\* entry at its end
C7_AppendOnly ==
    [][\/ transcript' = transcript
       \/ /\ Len(transcript') = Len(transcript) + 1
          /\ SubSeq(transcript', 1, Len(transcript)) = transcript
          /\ transcript'[Len(transcript')].sender \in {"user", "bot"}]_vars

C7_Witness ==
    /\ Len(transcript) = 4
    /\ transcript[1].sender = "user"
    /\ transcript[2].sender = "user"
    /\ transcript[3].sender = "bot"
    /\ transcript[4].sender = "bot"
    /\ transcript[1].text # transcript[2].text

\* ----------------------------------------------------------- overlay claims
\* C2: every settled invocation has hidden the overlay once: the overlay is
\* hidden in the state its completion leaves, showLoading(false) has run as
\* many times as invocations have settled, and it runs only in the step that
\* settles one
C2_HiddenOncePerInvocation ==
    /\ [](last.op = "settle" => overlay = "none")
    /\ [](hideCalls = issued - Len(requests))
    /\ [][hideCalls' # hideCalls =>
            /\ last'.op = "settle"
            /\ hideCalls' = hideCalls + 1
            /\ Len(requests') = Len(requests) - 1]_vars

C2_Witness ==
    /\ last.op = "settle"
    /\ last.arg.request.flow = "analyze"
    /\ last.arg.request.phase = "json"
    /\ last.arg.result.threw
    /\ hideCalls = 2
    /\ requests = <<>>
    /\ overlay = "none"

\* C3: while any request of a flow is in flight the overlay is visible
C3_VisibleWhileInFlight == requests # <<>> => overlay = "flex"

\* ----------------------------------------------------------- session claims
\* C8: the session identifier never changes, and every /chat request
\* carries it
C8_SessionFixed ==
    /\ [][sessionId' = sessionId]_vars
    /\ [](\A i \in DOMAIN requests :
            requests[i].flow = "chat" =>
               requests[i].body.session_id = sessionId)

C8_Witness ==
    /\ last.op = "send"
    /\ hideCalls = 1
    /\ Len(transcript) = 3
    /\ transcript[2] = [sender |-> "bot", text |-> ConnectionMessage]
    /\ currentLanguage = "sw"
    /\ activeBtns = {2}
    /\ requests[1].body.session_id = sessionId

IssueOps == {"send", "analyze", "getTips"}

\* C10: a click on the language toggle leaves everything but the language
\* and its label as it was, the pending requests included, and the request
\* a flow has just issued carries the language of that moment
C10_ToggleFrame ==
    /\ [][last'.op = "langToggle" =>
            UNCHANGED <<tabVars, sessionId, chatVars, netVars, imageVars,
                        resultVars>>]_vars
    /\ [](last.op \in IssueOps =>
            /\ requests # <<>>
            /\ requests[Len(requests)].body.language = currentLanguage)

C10_Witness ==
    /\ last.op = "langToggle"
    /\ Len(requests) = 1
    /\ requests[1].flow = "chat"
    /\ requests[1].body.language = "sw"
    /\ currentLanguage = "en"
    /\ transcript # <<>>
    /\ resultsDisplay = "block"
    /\ previewDisplay = "block"
    /\ overlay = "flex"
\* --------------------------------------------------- image flow claims
\* the file's declared type indicates an image
DeclaresImage(file) ==
    /\ file # NoFile
    /\ file.type # <<>>
    /\ file.type[1] = "image/"

\* C11: a drop of a file that is not an image, or of no file, leaves the
\* image flow as it was: no read is started, and the preview's visibility
\* and image, the upload prompt's visibility and the analyze button's
\* enabled state keep their values.
C11_NonImageDropIgnored ==
    [][ (last'.op = "drop" /\ ~DeclaresImage(last'.arg))
           => UNCHANGED imageVars ]_vars

\* a text file was dropped while a preview was showing and a read pending
C11_Witness ==
    /\ last.op = "drop"
    /\ last.arg \in OtherFiles
    /\ previewDisplay = "block"
    /\ ~analyzeDisabled
    /\ reads # <<>>

\* C12: a selection is accepted, that is its preview rendered and the
\* analyze button enabled, only if the file's declared type indicates an
\* image, through the drop area and through the file input alike.
C12_OnlyImagesAccepted ==
    (last.op = "onload" /\ previewDisplay = "block" /\ ~analyzeDisabled)
        => DeclaresImage(last.arg)

\* C13: a selected image file starts a read, through the file input and
\* through the drop area, and the completion of that read leaves the
\* previewing state: analyze enabled, upload prompt hidden, preview visible,
\* and the preview image the data URL of that file's contents.
C13_ReadCompletesToPreview ==
    /\ [][ (last'.op \in {"change", "drop"} /\ DeclaresImage(last'.arg))
             => reads' = Append(reads, last'.arg) ]_vars
    /\ [][ last'.op = "onload"
             => \E k \in DOMAIN reads : last'.arg = reads[k] ]_vars
    /\ [](last.op = "onload"
             => /\ ~analyzeDisabled
                /\ uploadDisplay = "none"
                /\ previewDisplay = "block"
                /\ Len(previewSrc) = Len(last.arg.type) + 3
                /\ previewSrc[1] = "data:"
                /\ SubSeq(previewSrc, 2, Len(previewSrc) - 2) = last.arg.type
                /\ previewSrc[Len(previewSrc) - 1] = ";base64,"
                /\ previewSrc[Len(previewSrc)] = last.arg.data)

\* the read of the picture selected last has completed and no other read
\* is pending, while the file input is empty (a dropped picture)
C13_Witness ==
    /\ last.op = "onload"
    /\ DeclaresImage(last.arg)
    /\ imageInput = NoFile
    /\ selected = last.arg
    /\ last.arg.data = "stem"
    /\ reads = <<>>

\* the image flow's empty state
EmptyState ==
    /\ imageInput = NoFile
    /\ uploadDisplay = "block"
    /\ previewDisplay = "none"
    /\ analyzeDisabled

\* C14: a click on remove returns the image flow to the empty state, and
\* a read callback of a selection made before the click does not leave it.
C14_RemoveReturnsToEmpty ==
    /\ [](last.op = "remove" => EmptyState)
    /\ [][ (last.op = "remove" /\ last'.op = "onload") => EmptyState' ]_vars

\* the operations that are a run of analyzeCrop up to its first await
AnalyzeOps == {"analyze", "analyzeRejected"}

\* C15: analyzeCrop run while the file input holds no image is rejected
\* on the spot: the alert 'Please select an image first' is shown, no
\* request is issued, the overlay is neither shown nor hidden, and the
\* results area keeps its content and visibility.
C15_NoImageRejected ==
    [][ (last'.op \in AnalyzeOps /\ imageInput = NoFile)
           => /\ last'.alert = <<"Please select an image first">>
              /\ UNCHANGED <<overlay, requests, issued, hideCalls,
                             resultsContent, resultsDisplay>> ]_vars

\* analyze was clicked with an empty file input while an earlier analysis
\* was on screen and another request was in flight
C15_Witness ==
    /\ last.op = "analyzeRejected"
    /\ imageInput = NoFile
    /\ resultsDisplay = "block"
    /\ resultsContent # <<>>
    /\ requests # <<>>
    /\ overlay = "flex"

\* C18: whenever the analyze button is enabled the file input holds a file,
\* so a click on analyze in the previewing state issues the /analyze-crop
\* request and never ends in 'Please select an image first', whether the
\* image came through the file input or the drop area.
C18_EnabledImpliesFile ==
    /\ [](~analyzeDisabled => imageInput # NoFile)
    /\ [][ (~analyzeDisabled /\ last'.op \in AnalyzeOps)
             => /\ last'.op = "analyze"
                /\ Len(requests') = Len(requests) + 1
                /\ requests'[Len(requests')].flow = "analyze" ]_vars

\* C19: whenever no read is pending and the preview is visible, the preview
\* shows the contents of the file selected most recently, and that file is
\* the one analyzeCrop would upload, in every order of selections and of
\* read completions.
C19_PreviewIsLatest ==
    (reads = <<>> /\ previewDisplay = "block")
        => /\ previewSrc = DataURL(selected)
           /\ imageInput = selected

\* ------------------------------------------------------ response claims
\* the exchange did not end in a 2xx response whose body parsed to a
\* success:true payload
BadResponse(settled) ==
    \/ settled.result.threw
    \/ settled.request.status \notin 200..299
    \/ ~settled.result.data.success

\* C16: on a response that is not a success:true payload, has a non-2xx
\* status or fails to parse, each flow takes its failure path and renders
\* no result: analysis and tips alert and leave their results area alone,
\* the chat appends one of its two failure messages.
C16_FailureOnBadResponse ==
    [][ (last'.op = "settle" /\ BadResponse(last'.arg))
           => CASE last'.arg.request.flow = "analyze" ->
                       /\ last'.alert # NoAlert
                       /\ UNCHANGED <<resultsContent, resultsDisplay>>
                [] last'.arg.request.flow = "tips" ->
                       /\ last'.alert # NoAlert
                       /\ UNCHANGED <<tipsContent, tipsDisplay>>
                [] last'.arg.request.flow = "chat" ->
                       \E m \in {SorryMessage, ConnectionMessage} :
                           transcript' = Append(transcript,
                                                [sender |-> "bot", text |-> m])
      ]_vars

\* ------------------------------------------------------- tips rendering
\* the heading of a key: as long as the key, a space for each underscore,
\* the upper-case letter for each letter
IsHeadingOf(h, key) ==
    /\ Len(h) = Len(key)
    /\ \A k \in DOMAIN key :
          IF key[k] = "_" THEN h[k] = " "
          ELSE IF \E n \in DOMAIN LowerCase : LowerCase[n] = key[k]
          THEN \E n \in DOMAIN LowerCase :
                  LowerCase[n] = key[k] /\ UpperCase[n] = h[k]
          ELSE h[k] = key[k]

\* the body of a value: a string as it is, a list of one-piece strings with
\* <br> between neighbours
IsBodyOf(b, value) ==
    CASE value.kind = "string" -> b = value.text
      [] value.kind = "array" ->
            /\ Len(b) = IF value.items = <<>> THEN 0
                        ELSE 2 * Len(value.items) - 1
            /\ \A j \in DOMAIN b :
                  IF j % 2 = 1 THEN <<b[j]>> = value.items[(j + 1) \div 2].text
                  ELSE b[j] = "<br>"
      [] OTHER -> b = <<"[object Object]">>

\* html from position `from` on is one section per member from the n-th on,
\* in their order, and then the closing tag of the wrapper
RECURSIVE IsSectionsFrom(_, _, _, _)
IsSectionsFrom(html, from, items, n) ==
    IF n > Len(items)
    THEN from = Len(html) /\ html[from] = "</div>"
    ELSE LET hEnd == from + 1 + Len(items[n].key)
         IN /\ hEnd <= Len(html)
            /\ html[from] = "\n            <div class=\"tip-section\">\n                <h4>"
            /\ IsHeadingOf(SubSeq(html, from + 1, hEnd - 1), items[n].key)
            /\ html[hEnd] = "</h4>\n                <p>"
            /\ \E pEnd \in (hEnd + 1)..Len(html) :
                  /\ html[pEnd] = "</p>\n            </div>\n        "
                  /\ IsBodyOf(SubSeq(html, hEnd + 1, pEnd - 1), items[n].value)
                  /\ IsSectionsFrom(html, pEnd + 1, items, n + 1)

IsRenderingOf(html, tips) ==
    IF tips.kind = "string"
    THEN html = <<"<div class=\"tips-text\">">> \o tips.text \o <<"</div>">>
    ELSE /\ html # <<>>
         /\ html[1] = "<div class=\"structured-tips\">"
         /\ IsSectionsFrom(html, 2, tips.items, 1)

\* the tips of a response that the tips flow rendered
RenderedTips == last.arg.result.data.tips

TipsWereRendered ==
    /\ last.op = "settle"
    /\ last.arg.request.flow = "tips"
    /\ last.alert = NoAlert

\* C17: formatTips renders string tips as they are inside one wrapper, and
\* a mapping as one section per key in the mapping's order, the heading the
\* key with underscores as spaces and upper-cased, the body the value as
\* text, a list joined by <br>: {watering: [daily, morning]} gives the
\* heading WATERING over daily<br>morning.
C17_TipsRendering ==
    TipsWereRendered =>
        /\ tipsDisplay = "block"
        /\ IsRenderingOf(tipsContent, RenderedTips)
        /\ RenderedTips =
              JMap(<<Member(<<"w", "a", "t", "e", "r", "i", "n", "g">>,
                            JArr(<<JStr(<<"daily">>), JStr(<<"morning">>)>>))>>)
           => tipsContent =
                 <<"<div class=\"structured-tips\">",
                   "\n            <div class=\"tip-section\">\n                <h4>",
                   "W", "A", "T", "E", "R", "I", "N", "G",
                   "</h4>\n                <p>",
                   "daily", "<br>", "morning",
                   "</p>\n            </div>\n        ",
                   "</div>">>

\* a mapping of two keys was rendered, the first with an underscore and a
\* list of two, the second with a string
C17_Witness ==
    /\ TipsWereRendered
    /\ RenderedTips.kind = "object"
    /\ Len(RenderedTips.items) = 2
    /\ RenderedTips.items[1].key = <<"a", "_", "b">>
    /\ RenderedTips.items[1].value.kind = "array"
    /\ Len(RenderedTips.items[1].value.items) = 2
    /\ RenderedTips.items[2].key = <<"b">>
    /\ RenderedTips.items[2].value.kind = "string"
    /\ Len(tipsContent) = 16

\* ------------------------------------------------- overlapping chat sends
ChatSettled == last.op = "settle" /\ last.arg.request.flow = "chat"

\* the user entry at place p has its bot entry in the transcript: no
\* pending chat request belongs to it
Answered(p) ==
    /\ transcript[p].sender = "user"
    /\ ~\E i \in DOMAIN requests :
           requests[i].flow = "chat" /\ requests[i].entry = p

\* C20: with overlapping chat sends the bot entries appear in the order of
\* the user messages they answer, and each user entry precedes its bot
\* entry, in every order of arrival: when a bot entry is appended, no user
\* message sent after the one it answers has its bot entry already.
C20_RepliesInSendOrder ==
    ChatSettled =>
        /\ last.arg.request.entry < Len(transcript)
        /\ \A p \in DOMAIN transcript :
              p > last.arg.request.entry => ~Answered(p)

\* C20 as the code has it: each user entry precedes the bot entry that
\* answers it, and the bot entries appear in the order in which their
\* responses arrive, each appended at the end of the transcript when its
\* request settles.
C20_RepliesInArrivalOrder ==
    /\ [][ (last'.op = "settle" /\ last'.arg.request.flow = "chat")
             => /\ Len(transcript') = Len(transcript) + 1
                /\ SubSeq(transcript', 1, Len(transcript)) = transcript
                /\ transcript'[Len(transcript')].sender = "bot" ]_vars
    /\ [](ChatSettled
             => /\ last.arg.request.entry < Len(transcript)
                /\ transcript[last.arg.request.entry].sender = "user"
                /\ transcript[last.arg.request.entry].text
                      = last.arg.request.body.message)

\* two sends overlapped and the answer to the second arrived first, then
\* the answer to the first
C20_Witness ==
    /\ ChatSettled
    /\ requests = <<>>
    /\ Len(transcript) = 4
    /\ last.arg.request.entry = 1
    /\ transcript[2].sender = "user"
    /\ transcript[3].sender = "bot"
    /\ transcript[1].text # transcript[2].text
    /\ ~last.arg.result.threw
    /\ last.arg.result.data.success

====
